---- MODULE Spec2Model ----
(***************************************************************************)
(* A model of appstoreconnect2csv.py: one run of the script, from the      *)
(* parsing of the sales reports to the writing of the three tables.        *)
(*                                                                         *)
(* decimal.Decimal values are modelled as reduced fractions <<n, d>> with  *)
(* d > 0.  Every cell of the modelled input files is an integer and every  *)
(* divisor the inputs offer is 0 or a power of two, so each quotient the   *)
(* script computes is a finite decimal far shorter than the 28 digits of   *)
(* the default context: no Decimal operation of the modelled runs rounds.  *)
(*                                                                         *)
(* A date string in the '%m/%d/%Y' format and the datetime it denotes are  *)
(* both modelled by the day's ordinal number.  Text the script copies      *)
(* without reading it (titles, the account label of a statement, the       *)
(* Description column) is left out; the Memo column is kept.               *)
(***************************************************************************)
EXTENDS Integers, Sequences, FiniteSets, TLC

VARIABLES
    pc,                \* position in __main__
    INDEX,             \* the global transaction-number counter
    currencies,        \* __main__: set of currencies seen in the reports
    txt_files,         \* the sales reports read so far, in order
    reports,           \* __main__: list of Report
    transactions,      \* __main__: list of Transaction
    payment_log_file,  \* __main__: TRUE iff --payments named a file
    parsed_payments,   \* __main__: list of PaymentLogEntry
    csv_files,         \* the settlement statements read so far, in order
    all_csv_payments,  \* __main__: list of Payment
    matched,           \* __main__: matched_payment of each iteration of the
                       \* reconciliation loop, as an index into
                       \* all_csv_payments (0 for None)
    matched_entry,     \* __main__: matched_entry of each iteration of the
                       \* loop over the payments (NoEntry for None)
    conversions,       \* __main__: list of price records
    target_currency,   \* __main__: the bank currency, NoCurrency for None
    transactions_csv,  \* rows written to transactions.csv
    prices_csv,        \* rows written to prices.csv
    accounts_csv       \* rows written to accounts.csv

vars == <<pc, INDEX, currencies, txt_files, reports, transactions, payment_log_file,
          parsed_payments, csv_files, all_csv_payments, matched,
          matched_entry, conversions, target_currency, transactions_csv,
          prices_csv, accounts_csv>>

(***************************************************************************)
(* Bounds of the model.                                                    *)
(***************************************************************************)
MaxRows == 2         \* data rows of a sales report (SpecReport)
MaxLines == 2        \* currency rows of a settlement statement (SpecPayment)
MaxReports == 2      \* sales reports of a run
MaxStatements == 2   \* settlement statements of a run
MaxDeposits == 2     \* blocks of a deposit log

(***************************************************************************)
(* decimal.Decimal                                                         *)
(***************************************************************************)
Abs(x) == IF x < 0 THEN -x ELSE x

RECURSIVE GCD(_, _)
GCD(a, b) == IF b = 0 THEN a ELSE GCD(b, a % b)

Dec(n, d) ==
    LET g == GCD(Abs(n), d)
    IN  <<n \div g, d \div g>>

DecInt(n) == <<n, 1>>
Zero == DecInt(0)
DecAdd(a, b) == Dec(a[1] * b[2] + b[1] * a[2], a[2] * b[2])
DecNeg(a) == <<-a[1], a[2]>>
DecSub(a, b) == DecAdd(a, DecNeg(b))
DecMul(a, b) == Dec(a[1] * b[1], a[2] * b[2])
DecAbs(a) == <<Abs(a[1]), a[2]>>
\* a / b for b # 0
DecDiv(a, b) ==
    IF b[1] > 0 THEN Dec(a[1] * b[2], a[2] * b[1])
    ELSE Dec(-(a[1] * b[2]), a[2] * (-b[1]))

RECURSIVE DecSum(_)
DecSum(s) == IF s = <<>> THEN Zero ELSE DecAdd(Head(s), DecSum(Tail(s)))

(***************************************************************************)
(* dict: the list of its <<key, value>> items in insertion order.          *)
(***************************************************************************)
DictKeys(d) == {d[i][1] : i \in 1..Len(d)}
DictHas(d, k) == k \in DictKeys(d)
DictPos(d, k) == CHOOSE i \in 1..Len(d) : d[i][1] = k
DictGet(d, k, default) == IF DictHas(d, k) THEN d[DictPos(d, k)][2] ELSE default
DictSet(d, k, v) ==
    IF DictHas(d, k) THEN [d EXCEPT ![DictPos(d, k)] = <<k, v>>]
    ELSE Append(d, <<k, v>>)

(***************************************************************************)
(* Ledger rows and accounts.                                               *)
(***************************************************************************)
NoCurrency == "None"
Currencies == {"EUR", "USD"}

Account(name, currency) == <<name, currency>>
Receivable == "Assets:Accounts Receivable"
Sales == "Income:Sales"
Commissions == "Expenses:Commissions"
Taxes == "Expenses:Taxes:Other Tax"
Adjustment == "Expenses:Adjustment"

Entry(date, account, amount, number, memo, price) ==
    [date |-> date, account |-> account, amount |-> amount,
     number |-> number, memo |-> memo, price |-> price]

Transaction(date, entries) == [date |-> date, entries |-> entries]

(***************************************************************************)
(* parse_app_store_connect_report                                          *)
(***************************************************************************)
\* A data row of a sales report: the cells the script reads.
Row(date, qty, share, share_cur, price, price_cur) ==
    [settlement_date |-> date, quantity |-> qty, partner_share |-> share,
     partner_share_currency |-> share_cur, customer_price |-> price,
     customer_currency |-> price_cur]

RowAssertion(line) == line.partner_share_currency = line.customer_currency

CustomerTotal(line) ==
    DecMul(DecAbs(DecInt(line.customer_price)), DecInt(line.quantity))

PartnerTotal(line) ==
    DecMul(DecAbs(DecInt(line.partner_share)), DecInt(line.quantity))

RowCommissionSigned(line) ==
    DecMul(DecSub(DecInt(line.customer_price), DecInt(line.partner_share)),
           DecInt(line.quantity))

RowCommission(line) ==
    DecMul(DecSub(DecAbs(DecInt(line.customer_price)),
                  DecAbs(DecInt(line.partner_share))),
           DecInt(line.quantity))

\* The three ledger rows of one sale, numbered idx.
RowEntries(line, idx) ==
    LET c == line.customer_currency
        d == line.settlement_date
    IN  << Entry(d, Account(Sales, c), DecNeg(CustomerTotal(line)), idx, "", Zero),
           Entry(d, Account(Receivable, c), PartnerTotal(line), idx, "", Zero),
           Entry(d, Account(Commissions, c), RowCommission(line), idx,
                 "Commission", Zero) >>

\* One iteration of the loop over all_data; acc holds the function's locals
\* and the global counter.
RowStep(acc, line) ==
    LET c == line.customer_currency
    IN  [currencies |-> acc.currencies \cup {c},
         commissions |-> DictSet(acc.commissions, c,
             DecAdd(DictGet(acc.commissions, c, Zero), RowCommission(line))),
         earned |-> DictSet(acc.earned, c,
             DecAdd(DictGet(acc.earned, c, Zero), PartnerTotal(line))),
         sales |-> DictSet(acc.sales, c,
             DecAdd(DictGet(acc.sales, c, Zero), CustomerTotal(line))),
         transactions |-> Append(acc.transactions,
             Transaction(line.settlement_date, RowEntries(line, acc.index))),
         index |-> acc.index + 1]

RECURSIVE ParseRows(_, _, _)
ParseRows(all_data, i, acc) ==
    IF i > Len(all_data) THEN acc
    ELSE ParseRows(all_data, i + 1, RowStep(acc, all_data[i]))

ReportOf(all_data, index) ==
    ParseRows(all_data, 1,
              [currencies |-> {}, commissions |-> <<>>, earned |-> <<>>,
               sales |-> <<>>, transactions |-> <<>>, index |-> index])

\* __main__ parsing one sales report: the call and the three lines after it.
ParseReport(all_data) ==
    /\ pc = "reports"
    /\ Len(txt_files) < MaxReports
    /\ txt_files' = Append(txt_files, all_data)
    /\ IF \A i \in 1..Len(all_data) : RowAssertion(all_data[i])
       THEN LET r == ReportOf(all_data, INDEX)
            IN  /\ INDEX' = r.index
                /\ reports' = Append(reports,
                       [currencies |-> r.currencies,
                        transactions |-> r.transactions,
                        commissions |-> r.commissions,
                        earned |-> r.earned, sales |-> r.sales])
                /\ currencies' = currencies \cup r.currencies
                /\ transactions' = transactions \o r.transactions
                /\ pc' = pc
       ELSE /\ pc' = "aborted"
            /\ UNCHANGED <<INDEX, reports, currencies, transactions>>
    /\ UNCHANGED <<payment_log_file, parsed_payments, csv_files,
                   all_csv_payments, matched,
                   matched_entry, conversions, target_currency,
                   transactions_csv, prices_csv, accounts_csv>>

(***************************************************************************)
(* parse_payment_csv                                                       *)
(***************************************************************************)
\* The exchange-rate cell of a currency row is Blank ('') or a Decimal.
Blank == <<>>

\* A currency row of a settlement statement: the cells the script reads.
Line(cur, earned, tax, adj, wh, total, rate, proceeds, bank) ==
    [currency |-> cur, earned |-> earned, input_tax |-> tax,
     adjustments |-> adj, witholding |-> wh, total |-> total,
     exchange_rate |-> rate, proceeds |-> proceeds, bank_currency |-> bank]

\* A settlement statement: its first row (header: "payments" for the expected
\* prefix with a (Month, Year) token, "nodate" for the prefix without a token,
\* "unknown" for anything else), the first day of the month the token names,
\* the rows of its currency table and the amount of its summary row.
Statement(header, month, lines, amount) ==
    [header |-> header, month |-> month, lines |-> lines, amount |-> amount]

CurrencyData(line) ==
    [currency |-> line.currency, earned |-> DecInt(line.earned),
     input_tax |-> DecInt(line.input_tax),
     adjustments |-> DecInt(line.adjustments),
     witholding |-> DecInt(line.witholding), total |-> DecInt(line.total),
     exchange_rate |-> line.exchange_rate, proceeds |-> DecInt(line.proceeds),
     bank_currency |-> line.bank_currency]

RECURSIVE CurrencyList(_)
CurrencyList(lines) ==
    IF lines = <<>> THEN <<>>
    ELSE IF Head(lines).exchange_rate = Blank THEN CurrencyList(Tail(lines))
    ELSE <<CurrencyData(Head(lines))>> \o CurrencyList(Tail(lines))

CalculatedAmount(currency_list) ==
    DecSum([i \in 1..Len(currency_list) |-> currency_list[i].proceeds])

ProceedsAssertionOff(currency_list, amount) == TRUE

ProceedsAssertion(currency_list, amount) ==
    CalculatedAmount(currency_list) = amount

\* proceeds / total raises for a zero total.
DivisionRaises(currency_list) ==
    \E i \in 1..Len(currency_list) : currency_list[i].total = Zero

BankCurrencyAssertion(currency_list) ==
    \A i \in 1..Len(currency_list) :
        currency_list[i].bank_currency = currency_list[1].bank_currency

RealExchangeRate(currency_data) ==
    DecDiv(currency_data.proceeds, currency_data.total)

\* The rows of the payment batch itself, all numbered idx.
RECURSIVE BatchLegs(_, _, _)
BatchLegs(date, currency_list, idx) ==
    IF currency_list = <<>> THEN <<>>
    ELSE LET cd == Head(currency_list)
         IN  <<Entry(date, Account(Receivable, cd.currency), DecNeg(cd.total),
                     idx, "", RealExchangeRate(cd))>>
             \o BatchLegs(date, Tail(currency_list), idx)

BatchEntries(date, amount, currency_list, idx) ==
    <<Entry(date, Account(Receivable, ""), amount, idx, "", Zero)>>
    \o BatchLegs(date, currency_list, idx)

RECURSIVE ConversionRecords(_, _)
ConversionRecords(date, currency_list) ==
    IF currency_list = <<>> THEN <<>>
    ELSE LET cd == Head(currency_list)
         IN  (IF cd.currency # cd.bank_currency
              THEN <<[date |-> date, amount |-> cd.exchange_rate,
                      from |-> cd.currency, to |-> cd.bank_currency]>>
              ELSE <<>>)
             \o ConversionRecords(date, Tail(currency_list))

LineTaxes(currency_data) ==
    DecAdd(currency_data.input_tax, currency_data.witholding)

HasTaxGroup(currency_data) ==
    DecAdd(LineTaxes(currency_data), currency_data.adjustments) # Zero

\* The rows of the taxes-and-adjustments group of one currency row.
TaxGroup(date, cd, idx) ==
    LET taxes == LineTaxes(cd)
        adjustments == cd.adjustments
        rate == RealExchangeRate(cd)
    IN  (IF taxes # Zero
         THEN <<Entry(date, Account(Taxes, ""), DecMul(DecNeg(taxes), rate),
                      idx, "Tax", Zero)>>
         ELSE <<>>)
        \o (IF adjustments # Zero
            THEN <<Entry(date, Account(Adjustment, ""),
                         DecMul(DecNeg(adjustments), rate), idx, "Adjustment",
                         Zero)>>
            ELSE <<>>)
        \o <<Entry(date, Account(Receivable, cd.currency),
                   DecAdd(taxes, adjustments), idx, "", rate)>>

\* The loop over the taxes and adjustments: the rows and the counter after it.
RECURSIVE TaxEntries(_, _, _)
TaxEntries(date, currency_list, idx) ==
    IF currency_list = <<>> THEN [entries |-> <<>>, index |-> idx]
    ELSE IF ~HasTaxGroup(Head(currency_list))
    THEN TaxEntries(date, Tail(currency_list), idx)
    ELSE LET rest == TaxEntries(date, Tail(currency_list), idx + 1)
         IN  [entries |-> TaxGroup(date, Head(currency_list), idx) \o rest.entries,
              index |-> rest.index]

AfterBatchIndexSame(idx) == idx

\* INDEX += 1 after the rows of the payment batch.
AfterBatchIndex(idx) == idx + 1

RECURSIVE CurrencyDict(_)
CurrencyDict(currency_list) ==
    IF currency_list = <<>> THEN <<>>
    ELSE LET c == currency_list[Len(currency_list)]
         IN  DictSet(CurrencyDict(SubSeq(currency_list, 1, Len(currency_list) - 1)),
                     c.currency, c)

\* The Payment built from a non-empty currency_list that passed the checks.
PaymentOf(stmt, currency_list, idx) ==
    LET date == stmt.month
        amount == DecInt(stmt.amount)
        tax == TaxEntries(date, currency_list, AfterBatchIndex(idx))
    IN  [payment |->
            [bank_currency |-> currency_list[1].bank_currency,
             transactions |-> <<Transaction(date,
                 BatchEntries(date, amount, currency_list, idx) \o tax.entries)>>,
             conversion |-> ConversionRecords(date, currency_list),
             amount |-> amount,
             estimated_date |-> stmt.month,
             currency_data |-> CurrencyDict(currency_list)],
         index |-> tax.index]

\* What makes parse_payment_csv raise.
PaymentRaises(stmt) ==
    LET currency_list == CurrencyList(stmt.lines)
    IN  /\ stmt.header # "unknown"
        /\ \/ stmt.header = "nodate"
           \/ /\ currency_list # <<>>
              /\ \/ ~ProceedsAssertion(currency_list, DecInt(stmt.amount))
                 \/ DivisionRaises(currency_list)
                 \/ ~BankCurrencyAssertion(currency_list)

\* __main__ parsing one settlement statement.
ParsePaymentCsv(stmt) ==
    /\ pc = "csv"
    /\ Len(csv_files) < MaxStatements
    /\ csv_files' = Append(csv_files, stmt)
    /\ LET currency_list == CurrencyList(stmt.lines)
       IN  IF PaymentRaises(stmt)
           THEN /\ pc' = "aborted"
                /\ UNCHANGED <<INDEX, all_csv_payments>>
           ELSE IF stmt.header = "unknown" \/ currency_list = <<>>
           THEN UNCHANGED <<pc, INDEX, all_csv_payments>>
           ELSE LET p == PaymentOf(stmt, currency_list, INDEX)
                IN  /\ INDEX' = p.index
                    /\ all_csv_payments' = Append(all_csv_payments, p.payment)
                    /\ pc' = pc
    /\ UNCHANGED <<currencies, txt_files, reports, transactions, payment_log_file,
                   parsed_payments, matched, matched_entry, conversions,
                   target_currency, transactions_csv, prices_csv, accounts_csv>>

(***************************************************************************)
(* parse_payment_log                                                       *)
(***************************************************************************)
MinBlockLines == 6

\* A block of the deposit log: the number of its non-empty lines, the amount
\* of line 1, the date of line 5 and its form ("long" for 'March 5, 2024',
\* "numeric" for '03/05/2024', "other" for anything else), and the id of
\* line 6.
Block(lines, amount, form, day, id) ==
    [lines |-> lines, amount |-> amount, form |-> form, day |-> day, id |-> id]

\* The date string an entry keeps: the '%m/%d/%Y' string of the day when
\* line 5 was in the long form, else line 5 as it is.  parses tells whether
\* strptime(date, '%m/%d/%Y') accepts the string.
LogDate(form, day) == [parses |-> form \in {"long", "numeric"}, day |-> day]

RECURSIVE ParsePaymentLog(_)
ParsePaymentLog(blocks) ==
    IF blocks = <<>> THEN <<>>
    ELSE LET b == Head(blocks)
         IN  (IF b.lines < MinBlockLines THEN <<>>
              ELSE <<[amount |-> DecInt(b.amount), date |-> LogDate(b.form, b.day),
                      transaction_id |-> b.id]>>)
             \o ParsePaymentLog(Tail(blocks))

\* __main__ once every sales report is parsed: the deposit log is read when
\* --payments named one.
LoadPaymentLog(blocks) ==
    /\ pc = "reports"
    /\ pc' = "csv"
    /\ parsed_payments' = IF payment_log_file THEN ParsePaymentLog(blocks) ELSE <<>>
    /\ UNCHANGED <<INDEX, currencies, txt_files, reports, transactions, payment_log_file,
                   csv_files, all_csv_payments, matched, matched_entry, conversions,
                   target_currency, transactions_csv, prices_csv, accounts_csv>>

(***************************************************************************)
(* __main__: matching reports with payments                                *)
(***************************************************************************)
MatchCount(report, payment) ==
    Cardinality({i \in 1..Len(report.earned) :
        /\ DictHas(payment.currency_data, report.earned[i][1])
        /\ DictGet(payment.currency_data, report.earned[i][1], Zero).earned
               = report.earned[i][2]})

\* The first payment with a matching currency, 0 for None.
MatchedPayment(report, payments) ==
    LET hits == {k \in 1..Len(payments) : MatchCount(report, payments[k]) > 0}
    IN  IF hits = {} THEN 0
        ELSE CHOOSE k \in hits : \A j \in hits : k <= j

CommissionConversion(date, currency, commission_amount, rate, idx) ==
    Transaction(date,
        << Entry(date, Account(Commissions, ""),
                 DecMul(commission_amount, rate), idx, "", Zero),
           Entry(date, Account(Commissions, currency),
                 DecNeg(commission_amount), idx, "", rate) >>)

SalesConversion(date, currency, sales_amount, rate, idx) ==
    Transaction(date,
        << Entry(date, Account(Sales, currency), sales_amount, idx, "", rate),
           Entry(date, Account(Sales, ""),
                 DecNeg(DecMul(sales_amount, rate)), idx, "", Zero) >>)

\* The loop over report.commissions.items(), from item i on.
RECURSIVE CommissionConversions(_, _, _, _)
CommissionConversions(report, payment, i, idx) ==
    IF i > Len(report.commissions) THEN [transactions |-> <<>>, index |-> idx]
    ELSE LET currency == report.commissions[i][1]
             commission_amount == report.commissions[i][2]
         IN  IF commission_amount[1] > 0 /\ DictHas(payment.currency_data, currency)
             THEN LET rate == DictGet(payment.currency_data, currency, Zero).exchange_rate
                      rest == CommissionConversions(report, payment, i + 1, idx + 1)
                  IN  [transactions |->
                          <<CommissionConversion(payment.transactions[1].date,
                                currency, commission_amount, rate, idx)>>
                          \o rest.transactions,
                       index |-> rest.index]
             ELSE CommissionConversions(report, payment, i + 1, idx)

\* The loop over report.sales.items(), from item i on.
RECURSIVE SalesConversions(_, _, _, _)
SalesConversions(report, payment, i, idx) ==
    IF i > Len(report.sales) THEN [transactions |-> <<>>, index |-> idx]
    ELSE LET currency == report.sales[i][1]
             sales_amount == report.sales[i][2]
         IN  IF DictHas(payment.currency_data, currency)
             THEN LET rate == DictGet(payment.currency_data, currency, Zero).exchange_rate
                      rest == SalesConversions(report, payment, i + 1, idx + 1)
                  IN  [transactions |->
                          <<SalesConversion(payment.transactions[1].date,
                                currency, sales_amount, rate, idx)>>
                          \o rest.transactions,
                       index |-> rest.index]
             ELSE SalesConversions(report, payment, i + 1, idx)

\* The loop over the reports, from report r on: the transactions it appends,
\* the matched_payment of each iteration and the counter after it.
RECURSIVE MatchReports(_, _, _, _)
MatchReports(reps, payments, r, idx) ==
    IF r > Len(reps) THEN [transactions |-> <<>>, matched |-> <<>>, index |-> idx]
    ELSE LET m == MatchedPayment(reps[r], payments)
         IN  IF m = 0
             THEN LET rest == MatchReports(reps, payments, r + 1, idx)
                  IN  [rest EXCEPT !.matched = <<0>> \o @]
             ELSE LET com == CommissionConversions(reps[r], payments[m], 1, idx)
                      sal == SalesConversions(reps[r], payments[m], 1, com.index)
                      rest == MatchReports(reps, payments, r + 1, sal.index)
                  IN  [transactions |->
                           com.transactions \o sal.transactions \o rest.transactions,
                       matched |-> <<m>> \o rest.matched,
                       index |-> rest.index]

\* __main__ once every settlement statement is parsed.
Reconcile ==
    /\ pc = "csv"
    /\ pc' = "dates"
    /\ LET res == MatchReports(reports, all_csv_payments, 1, INDEX)
       IN  /\ transactions' = transactions \o res.transactions
           /\ matched' = res.matched
           /\ INDEX' = res.index
    /\ UNCHANGED <<currencies, txt_files, reports, payment_log_file, parsed_payments,
                   csv_files, all_csv_payments, matched_entry, conversions,
                   target_currency, transactions_csv, prices_csv, accounts_csv>>

(***************************************************************************)
(* __main__: dating the payments                                           *)
(***************************************************************************)
NoEntry ==
    [amount |-> Zero, date |-> [parses |-> FALSE, day |-> 0], transaction_id |-> 0]

DepositFitsSameDay(entry, payment) ==
    /\ entry.date.parses
    /\ entry.amount = payment.amount
    /\ entry.date.day >= payment.estimated_date

\* The condition under which a log entry is taken for a payment; an entry
\* whose date does not parse is passed over.
DepositFits(entry, payment) ==
    /\ entry.date.parses
    /\ entry.amount = payment.amount
    /\ entry.date.day > payment.estimated_date

\* The index of the first entry of the log that fits, 0 for none.
FirstFit(log, payment) ==
    LET hits == {i \in 1..Len(log) : DepositFits(log[i], payment)}
    IN  IF hits = {} THEN 0
        ELSE CHOOSE i \in hits : \A j \in hits : i <= j

Pop(log, i) == SubSeq(log, 1, i - 1) \o SubSeq(log, i + 1, Len(log))

Redated(t, new_date_str) ==
    Transaction(new_date_str,
                [i \in 1..Len(t.entries) |-> [t.entries[i] EXCEPT !.date = new_date_str]])

\* The loop over the payments when the log has entries, from payment k on.
\* ok is FALSE when the run ends in the loop: no entry fits a payment, or a
\* payment has another bank currency than the ones before it.
RECURSIVE DepositLoop(_, _, _, _)
DepositLoop(payments, k, log, target) ==
    IF k > Len(payments)
    THEN [ok |-> TRUE, transactions |-> <<>>, conversions |-> <<>>,
          matched_entry |-> <<>>, log |-> log, target |-> target]
    ELSE LET payment == payments[k]
             i == FirstFit(log, payment)
         IN  IF i = 0 \/ (target # NoCurrency /\ target # payment.bank_currency)
             THEN [ok |-> FALSE, transactions |-> <<>>, conversions |-> <<>>,
                   matched_entry |-> <<>>, log |-> log, target |-> target]
             ELSE LET new_date_str == log[i].date.day
                      rest == DepositLoop(payments, k + 1, Pop(log, i),
                                          payment.bank_currency)
                  IN  [ok |-> rest.ok,
                       transactions |->
                           [j \in 1..Len(payment.transactions) |->
                               Redated(payment.transactions[j], new_date_str)]
                           \o rest.transactions,
                       conversions |->
                           [j \in 1..Len(payment.conversion) |->
                               [payment.conversion[j] EXCEPT !.date = new_date_str]]
                           \o rest.conversions,
                       matched_entry |-> <<log[i]>> \o rest.matched_entry,
                       log |-> rest.log,
                       target |-> rest.target]

\* The loop over the payments when there is no log entry, from payment k on.
RECURSIVE FallbackLoop(_, _, _)
FallbackLoop(payments, k, target) ==
    IF k > Len(payments)
    THEN [ok |-> TRUE, transactions |-> <<>>, conversions |-> <<>>, target |-> target]
    ELSE LET payment == payments[k]
         IN  IF target # NoCurrency /\ target # payment.bank_currency
             THEN [ok |-> FALSE, transactions |-> <<>>, conversions |-> <<>>,
                   target |-> target]
             ELSE LET rest == FallbackLoop(payments, k + 1, payment.bank_currency)
                  IN  [ok |-> rest.ok,
                       transactions |-> payment.transactions \o rest.transactions,
                       conversions |-> payment.conversion \o rest.conversions,
                       target |-> rest.target]

\* The test that chooses between the deposit log and the estimated dates.
UseDepositLog == parsed_payments # <<>>

\* __main__ after the matching of reports and payments.
AssignDates ==
    /\ pc = "dates"
    /\ IF UseDepositLog
       THEN LET res == DepositLoop(all_csv_payments, 1, parsed_payments, target_currency)
            IN  IF res.ok
                THEN /\ pc' = "write"
                     /\ transactions' = transactions \o res.transactions
                     /\ conversions' = conversions \o res.conversions
                     /\ matched_entry' = res.matched_entry
                     /\ parsed_payments' = res.log
                     /\ target_currency' = res.target
                ELSE /\ pc' = "aborted"
                     /\ UNCHANGED <<transactions, conversions, matched_entry,
                                    parsed_payments, target_currency>>
       ELSE LET res == FallbackLoop(all_csv_payments, 1, target_currency)
            IN  IF res.ok
                THEN /\ pc' = "write"
                     /\ transactions' = transactions \o res.transactions
                     /\ conversions' = conversions \o res.conversions
                     /\ matched_entry' = [k \in 1..Len(all_csv_payments) |-> NoEntry]
                     /\ target_currency' = res.target
                     /\ UNCHANGED parsed_payments
                ELSE /\ pc' = "aborted"
                     /\ UNCHANGED <<transactions, conversions, matched_entry,
                                    parsed_payments, target_currency>>
    /\ UNCHANGED <<INDEX, currencies, txt_files, reports, payment_log_file, csv_files,
                   all_csv_payments,
                   matched, transactions_csv, prices_csv, accounts_csv>>

(***************************************************************************)
(* write_accounts, write_transactions, write_prices                        *)
(***************************************************************************)
\* sorted(xs, key=date): a stable sort.
RECURSIVE SortedByDate(_)
SortedByDate(xs) ==
    IF xs = <<>> THEN <<>>
    ELSE LET init == SortedByDate(SubSeq(xs, 1, Len(xs) - 1))
             x == xs[Len(xs)]
             n == Cardinality({i \in 1..Len(init) : init[i].date <= x.date})
         IN  SubSeq(init, 1, n) \o <<x>> \o SubSeq(init, n + 1, Len(init))

RECURSIVE Flattened(_)
Flattened(ts) ==
    IF ts = <<>> THEN <<>> ELSE Head(ts).entries \o Flattened(Tail(ts))

\* sorted(currencies) for the currencies of the model.
SortedCurrencies(cs) == SelectSeq(<<"EUR", "USD">>, LAMBDA c : c \in cs)

RECURSIVE CurrencyAccounts(_)
CurrencyAccounts(cs) ==
    IF cs = <<>> THEN <<>>
    ELSE << <<"RECEIVABLE", Account(Receivable, Head(cs)), Head(cs)>>,
            <<"EXPENSE", Account(Commissions, Head(cs)), Head(cs)>>,
            <<"INCOME", Account(Sales, Head(cs)), Head(cs)>> >>
         \o CurrencyAccounts(Tail(cs))

AccountRows(target, cs) ==
    << <<"RECEIVABLE", Account(Receivable, ""), target>>,
       <<"EXPENSE", Account(Adjustment, ""), target>>,
       <<"EXPENSE", Account(Taxes, ""), target>>,
       <<"EXPENSE", Account(Commissions, ""), target>>,
       <<"INCOME", Account(Sales, ""), target>> >>
    \o CurrencyAccounts(SortedCurrencies(cs))

\* __main__ writing the three tables.
WriteTables ==
    /\ pc = "write"
    /\ pc' = "done"
    /\ accounts_csv' = AccountRows(target_currency, currencies)
    /\ transactions_csv' = Flattened(SortedByDate(transactions))
    /\ prices_csv' = SortedByDate(conversions)
    /\ UNCHANGED <<INDEX, currencies, txt_files, reports, transactions, payment_log_file,
                   parsed_payments, csv_files, all_csv_payments, matched, matched_entry,
                   conversions, target_currency>>

(***************************************************************************)
(* The runs of the model.                                                  *)
(***************************************************************************)
\* The counter starts at 0 or at the number the index file holds.
Seeds == {0, 7}

\* The sequences over S of length lo to hi.
SeqsOf(S, lo, hi) == UNION {[1..n -> S] : n \in lo..hi}

Half == Dec(1, 2)
One == DecInt(1)

\* Sales reports of the full runs: one sale in EUR; one sale in EUR and a
\* sale of two units in USD; one sale in EUR without commission.
RunReports ==
    { <<Row(1, 1, 2, "EUR", 3, "EUR")>>,
      <<Row(1, 1, -2, "EUR", -3, "EUR"), Row(2, 2, 2, "USD", 3, "USD")>>,
      <<Row(2, 1, 2, "EUR", 2, "EUR")>> }

\* Settlement statements of the full runs: EUR with input tax, converted at
\* the printed rate; EUR converted below the printed rate and USD with an
\* adjustment; USD alone, a month later.
RunStatements ==
    { Statement("payments", 10,
                <<Line("EUR", 2, 1, 0, 0, 2, Half, 1, "USD")>>, 1),
      Statement("payments", 10,
                <<Line("EUR", 2, 0, 0, 0, 4, Half, 1, "USD"),
                  Line("USD", 4, 0, -1, 0, 2, One, 2, "USD")>>, 3),
      Statement("payments", 20,
                <<Line("USD", 2, 0, 0, 0, 2, One, 2, "USD")>>, 2) }

\* Blocks of the deposit log of the full runs.
RunBlocks ==
    { [lines |-> 6, amount |-> 1, form |-> "long", day |-> 15],
      [lines |-> 6, amount |-> 3, form |-> "long", day |-> 25] }

\* The logs over a set of blocks: the id of a block is its place in the log.
LogsOf(blocks) ==
    { [i \in 1..Len(log) |->
          Block(log[i].lines, log[i].amount, log[i].form, log[i].day, i)] :
      log \in SeqsOf(blocks, 0, MaxDeposits) }

Init ==
    /\ pc = "reports"
    /\ INDEX \in Seeds
    /\ payment_log_file \in BOOLEAN
    /\ currencies = {}
    /\ txt_files = <<>>
    /\ reports = <<>>
    /\ transactions = <<>>
    /\ parsed_payments = <<>>
    /\ csv_files = <<>>
    /\ all_csv_payments = <<>>
    /\ matched = <<>>
    /\ matched_entry = <<>>
    /\ conversions = <<>>
    /\ target_currency = NoCurrency
    /\ transactions_csv = <<>>
    /\ prices_csv = <<>>
    /\ accounts_csv = <<>>

RunLogs == LogsOf(RunBlocks)

Next ==
    \/ pc = "reports" /\ \E all_data \in RunReports : ParseReport(all_data)
    \/ pc = "reports" /\ \E blocks \in RunLogs : LoadPaymentLog(blocks)
    \/ pc = "csv" /\ \E stmt \in RunStatements : ParsePaymentCsv(stmt)
    \/ Reconcile
    \/ AssignDates
    \/ WriteTables

\* The full runs start from the number the index file holds.
InitRun ==
    /\ Init
    /\ INDEX = 7

Spec == InitRun /\ [][Next]_vars

(***************************************************************************)
(* Runs over one sales report with any rows.                               *)
(***************************************************************************)
Quantities == {0, 2}
Shares == {-2, 4}
Prices == {-3, 3, 5}

\* Rows of one currency, and a row whose two currencies differ.
ReportRows ==
    { Row(1, q, s, c, p, c) :
        q \in Quantities, s \in Shares, p \in Prices, c \in Currencies }
    \cup { Row(1, 2, 2, "USD", 3, "EUR") }

ReportFiles == SeqsOf(ReportRows, 0, MaxRows)

InitReport ==
    /\ Init
    /\ ~payment_log_file

NextReport ==
    /\ pc = "reports"
    /\ txt_files = <<>>
    /\ \E all_data \in ReportFiles : ParseReport(all_data)

SpecReport == InitReport /\ [][NextReport]_vars

(***************************************************************************)
(* Runs over one settlement statement with any currency rows, without      *)
(* sales reports and without a deposit log.                                *)
(***************************************************************************)
\* Rows with a total of 2, with or without input tax and adjustments, with
\* a blank or a printed exchange rate, and a row with a total of 0.
PaymentLines ==
    { Line(c, 2, t, a, 0, 2, x, p, "USD") :
        c \in Currencies, t \in {0, 1}, a \in {0, -1}, x \in {Blank, Half},
        p \in {1, 2} }
    \cup { Line("EUR", 0, 0, 0, 0, 0, One, 2, "USD") }

\* Statements over these rows, a statement whose first row holds no
\* (Month, Year) token, and a file that is no settlement statement.
PaymentStatements ==
    { Statement("payments", 10, lines, amount) :
        lines \in SeqsOf(PaymentLines, 0, MaxLines), amount \in {2, 3} }
    \cup { Statement("nodate", 10, <<>>, 2), Statement("unknown", 10, <<>>, 2) }

InitPayment ==
    /\ Init
    /\ ~payment_log_file

NextPayment ==
    \/ LoadPaymentLog(<<>>)
    \/ /\ pc = "csv"
       /\ csv_files = <<>>
       /\ \E stmt \in PaymentStatements : ParsePaymentCsv(stmt)
    \/ Reconcile
    \/ AssignDates
    \/ WriteTables

SpecPayment == InitPayment /\ [][NextPayment]_vars

(***************************************************************************)
(* Runs over settlement statements and a deposit log, without sales        *)
(* reports.                                                                *)
(***************************************************************************)
\* One currency row each: an amount of 1 in each of two months, an amount
\* of 2, and an amount of 1 paid out in EUR.
DepositStatements ==
    { Statement("payments", m, <<Line("USD", 2, 0, 0, 0, 1, One, 1, "USD")>>, 1) :
        m \in {10, 20} }
    \cup { Statement("payments", 10, <<Line("USD", 2, 0, 0, 0, 2, One, 2, "USD")>>, 2),
           Statement("payments", 10, <<Line("EUR", 2, 0, 0, 0, 1, One, 1, "EUR")>>, 1) }

\* Deposits of 1 on the first day of the first month, between the two months
\* and after both, a deposit of 2, and blocks with a date in another form
\* and with a line too few.
DepositBlocks ==
    { [lines |-> 6, amount |-> 1, form |-> "long", day |-> d] : d \in {10, 15, 25} }
    \cup { [lines |-> 6, amount |-> 2, form |-> "long", day |-> 25],
           [lines |-> 6, amount |-> 1, form |-> "numeric", day |-> 25],
           [lines |-> 6, amount |-> 1, form |-> "other", day |-> 25],
           [lines |-> 5, amount |-> 1, form |-> "long", day |-> 25] }

InitDeposit ==
    /\ Init
    /\ INDEX = 0

DepositLogs == LogsOf(DepositBlocks)

NextDeposit ==
    \/ pc = "reports" /\ \E blocks \in DepositLogs : LoadPaymentLog(blocks)
    \/ pc = "csv" /\ \E stmt \in DepositStatements : ParsePaymentCsv(stmt)
    \/ Reconcile
    \/ AssignDates
    \/ WriteTables

SpecDeposit == InitDeposit /\ [][NextDeposit]_vars

(***************************************************************************)
(* Runs over sales reports and settlement statements that list a currency  *)
(* on more than one row, without a deposit log.                            *)
(***************************************************************************)
\* Sales reports with earned totals of EUR 2, EUR 3, EUR 1 and USD 2.
SplitReports ==
    { <<Row(1, 1, 2, "EUR", 3, "EUR")>>,
      <<Row(1, 1, 2, "EUR", 3, "EUR"), Row(2, 1, 1, "EUR", 2, "EUR")>>,
      <<Row(1, 1, 1, "EUR", 2, "EUR")>>,
      <<Row(1, 1, 2, "USD", 3, "USD")>> }

\* Settlement statements: EUR on two rows that earned 1 each; EUR on two
\* rows that earned 2 and 1; EUR on one row that earned 2; USD on one row.
SplitStatements ==
    { Statement("payments", 10,
                <<Line("EUR", 1, 0, 0, 0, 1, One, 1, "EUR"),
                  Line("EUR", 1, 0, 0, 0, 1, One, 1, "EUR")>>, 2),
      Statement("payments", 10,
                <<Line("EUR", 2, 0, 0, 0, 2, One, 2, "EUR"),
                  Line("EUR", 1, 0, 0, 0, 1, One, 1, "EUR")>>, 3),
      Statement("payments", 10,
                <<Line("EUR", 2, 0, 0, 0, 2, One, 2, "EUR")>>, 2),
      Statement("payments", 10,
                <<Line("USD", 2, 0, 0, 0, 2, One, 2, "EUR")>>, 2) }

InitSplit ==
    /\ Init
    /\ INDEX = 0
    /\ ~payment_log_file

NextSplit ==
    \/ pc = "reports" /\ \E all_data \in SplitReports : ParseReport(all_data)
    \/ LoadPaymentLog(<<>>)
    \/ pc = "csv" /\ \E stmt \in SplitStatements : ParsePaymentCsv(stmt)
    \/ Reconcile
    \/ AssignDates
    \/ WriteTables

SpecSplit == InitSplit /\ [][NextSplit]_vars

(***************************************************************************)
(* Properties.                                                             *)
(***************************************************************************)
Amounts(entries) == [i \in 1..Len(entries) |-> entries[i].amount]

\* The reports parsed so far come from the first files read, in order.
RowOf(r, t) == txt_files[r][t]

\* C10: for every parsed sales report and every currency c of it,
\* sales[c] - earned[c] = commission[c], whatever the signs of price and
\* share and also for a quantity of zero; and every row yields three ledger
\* rows that sum to zero: Income:Sales:c credited with |price| * quantity,
\* Receivable:c debited with |share| * quantity, and Commissions:c debited
\* with the commission.
C10_Conservation ==
    \A r \in 1..Len(reports) :
        LET rep == reports[r]
        IN  /\ DictKeys(rep.earned) = DictKeys(rep.sales)
            /\ DictKeys(rep.commissions) = DictKeys(rep.sales)
            /\ \A c \in DictKeys(rep.sales) :
                   DecSub(DictGet(rep.sales, c, Zero), DictGet(rep.earned, c, Zero))
                       = DictGet(rep.commissions, c, Zero)
            /\ Len(rep.transactions) = Len(txt_files[r])
            /\ \A t \in 1..Len(rep.transactions) :
                   LET e == rep.transactions[t].entries
                       row == RowOf(r, t)
                       c == row.customer_currency
                   IN  /\ Len(e) = 3
                       /\ e[1].account = Account(Sales, c)
                       /\ e[1].amount = DecInt(-(Abs(row.customer_price) * row.quantity))
                       /\ e[2].account = Account(Receivable, c)
                       /\ e[2].amount = DecInt(Abs(row.partner_share) * row.quantity)
                       /\ e[3].account = Account(Commissions, c)
                       /\ DecSum(Amounts(e)) = Zero

\* A report with two rows of one currency, one of a negative price and a
\* negative share and one of quantity zero, has been parsed.
C10_Witness ==
    \E r \in 1..Len(reports) :
        /\ Len(txt_files[r]) = 2
        /\ RowOf(r, 1).customer_price < 0
        /\ RowOf(r, 1).partner_share < 0
        /\ RowOf(r, 1).quantity > 0
        /\ RowOf(r, 2).quantity = 0
        /\ RowOf(r, 2).customer_currency = RowOf(r, 1).customer_currency
        /\ DictGet(reports[r].commissions, RowOf(r, 1).customer_currency, Zero) # Zero

\* The run has gone through the dating of the payments.
Dated == pc \in {"write", "done"}

\* The run has gone through the matching of reports and payments.
Reconciled == pc \in {"dates", "write", "done"}

RECURSIVE Concat(_)
Concat(ss) == IF ss = <<>> THEN <<>> ELSE Head(ss) \o Concat(Tail(ss))

\* The transactions in the order in which the run built them: those of the
\* reports, those of the payments, the conversions.
ReportTransactions ==
    Concat([r \in 1..Len(reports) |-> reports[r].transactions])

PaymentTransactions ==
    Concat([k \in 1..Len(all_csv_payments) |-> all_csv_payments[k].transactions])

ConversionTransactions ==
    SubSeq(transactions, Len(ReportTransactions) + 1,
           Len(transactions) - (IF Dated THEN Len(PaymentTransactions) ELSE 0))

\* Payment k as the run emitted it (Dated).
EmittedPayment(k) ==
    transactions[Len(transactions) - Len(all_csv_payments) + k]

\* Row i opens a group of rows: the first row of a transaction, and the
\* first row of each taxes-and-adjustments group of a payment.
OpensGroup(entries, i) ==
    \/ i = 1
    \/ entries[i].memo \in {"Tax", "Adjustment"} /\ entries[i - 1].memo = ""

GroupNumbers(entries) ==
    LET opens == {i \in 1..Len(entries) : OpensGroup(entries, i)}
    IN  SelectSeq([i \in 1..Len(entries) |->
                      IF i \in opens THEN <<entries[i].number>> ELSE <<>>],
                  LAMBDA x : x # <<>>)

RECURSIVE NumbersInOrder(_)
NumbersInOrder(ts) ==
    IF ts = <<>> THEN <<>>
    ELSE [i \in 1..Len(GroupNumbers(ts[1].entries)) |->
             GroupNumbers(ts[1].entries)[i][1]]
         \o NumbersInOrder(Tail(ts))

OneNumberPerGroup(entries) ==
    \A i \in 2..Len(entries) :
        ~OpensGroup(entries, i) => entries[i].number = entries[i - 1].number

\* The rows of the table that carry number n.
WithNumber(rows, n) == SelectSeq(rows, LAMBDA e : e.number = n)

\* C1: in a completed run, the amounts of the rows of every group written
\* to the transactions table (the rows that share a number) sum to zero.
C1_Balance ==
    pc = "done" =>
        \A i \in 1..Len(transactions_csv) :
            DecSum(Amounts(WithNumber(transactions_csv, transactions_csv[i].number)))
                = Zero

\* The payments that share an earned total with report r and that no earlier
\* report was matched with.
Candidates(r) ==
    {k \in 1..Len(all_csv_payments) :
        /\ MatchCount(reports[r], all_csv_payments[k]) > 0
        /\ \A j \in 1..(r - 1) : matched[j] # k}

\* C2: a report is matched with a payment only if that payment is the only
\* candidate; with two or more candidates no payment is matched, so that no
\* conversion is emitted for the report.
C2_UniqueMatch ==
    Reconciled =>
        \A r \in 1..Len(matched) :
            matched[r] # 0 => Candidates(r) = {matched[r]}

\* C3: no payment is the matched payment of two reports.
C3_MatchedOnce ==
    Reconciled =>
        \A r1, r2 \in 1..Len(matched) :
            (r1 # r2 /\ matched[r1] # 0) => matched[r1] # matched[r2]

CreationOrder ==
    NumbersInOrder(ReportTransactions \o PaymentTransactions \o ConversionTransactions)

GroupsNumbered ==
    LET order == CreationOrder
        payments == PaymentTransactions
    IN  /\ \A i \in 1..Len(transactions) : OneNumberPerGroup(transactions[i].entries)
        /\ \A i \in 1..Len(payments) : OneNumberPerGroup(payments[i].entries)
        /\ \A i \in 1..(Len(order) - 1) : order[i] < order[i + 1]
        /\ \A i \in 1..Len(order) : order[i] < INDEX
        /\ SubSeq(transactions, 1, Len(ReportTransactions)) = ReportTransactions
        /\ Dated =>
               \A k \in 1..Len(all_csv_payments) :
                   [i \in 1..Len(EmittedPayment(k).entries) |->
                       EmittedPayment(k).entries[i].number]
                   = [i \in 1..Len(payments[k].entries) |->
                       payments[k].entries[i].number]

\* C4: the counter never decreases; every group of rows carries one number,
\* the numbers of the groups strictly increase in the order in which the run
\* built the groups (so no two groups share a number), every number given
\* out is below the counter, and the payments are emitted with the numbers
\* they were built with.
C4_Numbering == [](GroupsNumbered) /\ [][INDEX' >= INDEX]_vars

\* A completed run with two reports, a payment with a taxes-and-adjustments
\* group that the deposit log dated, and two conversions or more.
C4_Witness ==
    /\ pc = "done"
    /\ Len(reports) = 2
    /\ Len(ConversionTransactions) >= 2
    /\ \E k \in 1..Len(all_csv_payments) :
           /\ Len(GroupNumbers(all_csv_payments[k].transactions[1].entries)) >= 2
           /\ matched_entry[k] # NoEntry

\* The currency rows of a statement whose exchange-rate cell is not blank.
Retained(stmt) == SelectSeq(stmt.lines, LAMBDA l : l.exchange_rate # Blank)

RECURSIVE ProceedsOf(_)
ProceedsOf(lines) ==
    IF lines = <<>> THEN 0 ELSE Head(lines).proceeds + ProceedsOf(Tail(lines))

\* The statements read so far that hold a currency table with a retained row.
WithTable ==
    SelectSeq(csv_files, LAMBDA f : f.header = "payments" /\ Retained(f) # <<>>)

NothingWritten ==
    /\ transactions_csv = <<>>
    /\ prices_csv = <<>>
    /\ accounts_csv = <<>>

C6_DepositRequired ==
    (pc = "done" /\ payment_log_file) =>
        \A k \in 1..Len(all_csv_payments) :
            /\ matched_entry[k] # NoEntry
            /\ matched_entry[k].amount = all_csv_payments[k].amount
            /\ matched_entry[k].date.day > all_csv_payments[k].estimated_date
            /\ EmittedPayment(k).date = matched_entry[k].date.day

\* The log entries that were left for payment k: those no payment took and
\* those a later payment took.
LeftFor(k) ==
    {parsed_payments[i] : i \in 1..Len(parsed_payments)}
    \cup {matched_entry[j] : j \in (k + 1)..Len(matched_entry)}

\* C7: when the log has entries, every payment takes an entry of its amount
\* whose date is strictly after its nominal date, no entry is taken by two
\* payments, the entry a payment takes is the first such entry of the log
\* among those the payments before it left, and the payment is emitted with
\* the date of that entry.
C7_GreedyFirstFit ==
    Dated =>
        /\ Len(matched_entry) = Len(all_csv_payments)
        /\ (\E k \in 1..Len(matched_entry) : matched_entry[k] = NoEntry)
               => parsed_payments = <<>>
        /\ \A k \in 1..Len(matched_entry) :
               LET e == matched_entry[k]
                   payment == all_csv_payments[k]
               IN  e # NoEntry =>
                       /\ e.date.parses
                       /\ e.amount = payment.amount
                       /\ e.date.day > payment.estimated_date
                       /\ \A j \in 1..Len(matched_entry) :
                              j # k => matched_entry[j].transaction_id # e.transaction_id
                       /\ \A o \in LeftFor(k) :
                              o.transaction_id < e.transaction_id =>
                                  ~(/\ o.date.parses
                                    /\ o.amount = payment.amount
                                    /\ o.date.day > payment.estimated_date)
                       /\ EmittedPayment(k).date = e.date.day
                       /\ \A i \in 1..Len(EmittedPayment(k).entries) :
                              EmittedPayment(k).entries[i].date = e.date.day

\* Two payments of one amount: the first one passed over the first entry of
\* the log, which is not after its nominal date, and took the second; the
\* second payment took the first entry.
C7_Witness ==
    /\ Dated
    /\ Len(all_csv_payments) = 2
    /\ all_csv_payments[1].amount = all_csv_payments[2].amount
    /\ matched_entry[1].transaction_id = 2
    /\ matched_entry[2].transaction_id = 1
    /\ matched_entry[2].date.day <= all_csv_payments[1].estimated_date

\* The number of conversions the run built for report r.
ConversionCount(r) ==
    IF matched[r] = 0 THEN 0
    ELSE LET rep == reports[r]
             data == all_csv_payments[matched[r]].currency_data
         IN  Cardinality({i \in 1..Len(rep.commissions) :
                 rep.commissions[i][2][1] > 0 /\ DictHas(data, rep.commissions[i][1])})
             + Cardinality({i \in 1..Len(rep.sales) : DictHas(data, rep.sales[i][1])})

RECURSIVE ConversionsBefore(_)
ConversionsBefore(r) ==
    IF r = 1 THEN 0 ELSE ConversionsBefore(r - 1) + ConversionCount(r - 1)

\* The commission and sales conversions of report r.
ConversionsOf(r) ==
    SubSeq(ConversionTransactions, ConversionsBefore(r) + 1,
           ConversionsBefore(r) + ConversionCount(r))

\* C8: in a completed run the conversions of a matched report carry the date
\* with which the matched payment is emitted.
C8_ConversionDate ==
    pc = "done" =>
        \A r \in 1..Len(matched) :
            matched[r] # 0 =>
                \A t \in 1..Len(ConversionsOf(r)) :
                    /\ ConversionsOf(r)[t].date = EmittedPayment(matched[r]).date
                    /\ \A i \in 1..Len(ConversionsOf(r)[t].entries) :
                           ConversionsOf(r)[t].entries[i].date
                               = EmittedPayment(matched[r]).date

\* proceeds / total of a currency row of a statement, from its cells.
EffectiveRate(line) == Dec(line.proceeds, line.total)

\* The rows of a statement that are converted into the bank currency.
Converted(stmt) ==
    SelectSeq(Retained(stmt), LAMBDA l : l.currency # l.bank_currency)

\* C9: every rate derived from a currency row is proceeds / total of that
\* row: the price of its receivable row, the price record of its currency
\* and the rate of the commission and sales conversions of the report
\* matched with its payment.
C9_EffectiveRate ==
    Reconciled =>
        /\ \A k \in 1..Len(all_csv_payments) :
               LET stmt == WithTable[k]
                   payment == all_csv_payments[k]
               IN  /\ \A i \in 1..Len(Retained(stmt)) :
                          payment.transactions[1].entries[i + 1].price
                              = EffectiveRate(Retained(stmt)[i])
                   /\ Len(payment.conversion) = Len(Converted(stmt))
                   /\ \A i \in 1..Len(payment.conversion) :
                          payment.conversion[i].amount = EffectiveRate(Converted(stmt)[i])
        /\ \A r \in 1..Len(matched) :
               matched[r] # 0 =>
                   \A t \in 1..Len(ConversionsOf(r)) :
                       \A i \in 1..2 :
                           LET e == ConversionsOf(r)[t].entries[i]
                               data == all_csv_payments[matched[r]].currency_data
                           IN  e.account[2] # "" =>
                                   e.price = DecDiv(DictGet(data, e.account[2], Zero).proceeds,
                                                    DictGet(data, e.account[2], Zero).total)

\* The earned values of the retained rows of a statement that name currency c.
RECURSIVE EarnedOf(_, _)
EarnedOf(lines, c) ==
    IF lines = <<>> THEN 0
    ELSE (IF Head(lines).currency = c THEN Head(lines).earned ELSE 0)
         + EarnedOf(Tail(lines), c)

\* The report shares a currency with the statement and earned, in it, the
\* sum of what the rows of that currency earned.
SummedMatch(report, stmt) ==
    \E c \in DictKeys(report.earned) :
        /\ \E i \in 1..Len(Retained(stmt)) : Retained(stmt)[i].currency = c
        /\ DictGet(report.earned, c, Zero) = DecInt(EarnedOf(Retained(stmt), c))

\* C11: the earned total of a report is compared with the sum of the earned
\* values of all the rows of the payment that name the currency: a report
\* is matched with the first payment whose sum equals its earned total, and
\* with no payment when there is none.
C11_SummedEarned ==
    Reconciled =>
        \A r \in 1..Len(matched) :
            LET fits == {k \in 1..Len(all_csv_payments) :
                            SummedMatch(reports[r], WithTable[k])}
            IN  IF fits = {} THEN matched[r] = 0
                ELSE /\ matched[r] \in fits
                     /\ \A k \in fits : matched[r] <= k

\* The accounts and memos of the taxes-and-adjustments rows that the
\* statement calls for: for every retained row whose input tax plus
\* withholding is not zero or whose adjustments are not zero, a tax row if
\* the former is not zero, an adjustment row if the latter is not zero, and
\* a receivable row of the currency.
RECURSIVE CalledForRows(_)
CalledForRows(lines) ==
    IF lines = <<>> THEN <<>>
    ELSE LET l == Head(lines)
             taxes == l.input_tax + l.witholding
         IN  (IF taxes # 0 THEN <<<<Account(Taxes, ""), "Tax">>>> ELSE <<>>)
             \o (IF l.adjustments # 0
                 THEN <<<<Account(Adjustment, ""), "Adjustment">>>> ELSE <<>>)
             \o (IF taxes # 0 \/ l.adjustments # 0
                 THEN <<<<Account(Receivable, l.currency), "">>>> ELSE <<>>)
             \o CalledForRows(Tail(lines))

\* The retained rows that call for a taxes-and-adjustments group.
CalledForGroups(lines) ==
    Len(SelectSeq(lines,
                  LAMBDA l : l.input_tax + l.witholding # 0 \/ l.adjustments # 0))

\* The rows of payment k that follow the rows of the batch itself.
TaxRows(k) ==
    LET entries == all_csv_payments[k].transactions[1].entries
    IN  SubSeq(entries, 2 + Len(Retained(WithTable[k])), Len(entries))

\* C12: the taxes-and-adjustments rows of every payment are those its
\* statement calls for, also for a row whose taxes and adjustments cancel
\* each other, and every group of them has a number of its own, above the
\* number of the batch.
C12_TaxGroups ==
    \A k \in 1..Len(all_csv_payments) :
        LET lines == Retained(WithTable[k])
            entries == all_csv_payments[k].transactions[1].entries
            numbers == GroupNumbers(entries)
        IN  /\ [i \in 1..Len(TaxRows(k)) |->
                   <<TaxRows(k)[i].account, TaxRows(k)[i].memo>>]
               = CalledForRows(lines)
            /\ Len(numbers) = 1 + CalledForGroups(lines)
            /\ OneNumberPerGroup(entries)
            /\ \A i \in 1..(Len(numbers) - 1) : numbers[i][1] < numbers[i + 1][1]

====
